---- MODULE Spec2Model ----
(***************************************************************************)
(* Model of split_pdf.js: the command-line entry, the page splitter, the   *)
(* thumbnail generator (pdftocairo, one invocation per page) and the      *)
(* filename reconciler renameSuffixedFiles.                                *)
(*                                                                         *)
(* A string of the program (a file name, a path) is the sequence of its    *)
(* characters; the directory is a function from the names present to       *)
(* their entries.  The regular expression of renameSuffixedFiles and the   *)
(* path helpers of Node are operators over the characters of a string.     *)
(***************************************************************************)
EXTENDS Integers, Sequences, FiniteSets, TLC

(***************************************************************************)
(* Bounds                                                                  *)
(***************************************************************************)
\* largest page count of a source document
MaxPages == 2
\* largest number of entries in the directory before a run
MaxPre == 3
\* number of consecutive calls of renameSuffixedFiles in the rename harness
MaxPasses == 2

(***************************************************************************)
(* Characters and strings                                                  *)
(***************************************************************************)
\* A string of the program is the sequence of its characters.  A character is
\* written as a one-character string; the two line terminators outside ASCII
\* are written by their names, "U+2028" and "U+2029".  Str gives the string
\* of the program that an ASCII text stands for.
RECURSIVE Str(_)
Str(text) ==
    IF Len(text) = 0 THEN <<>>
    ELSE <<SubSeq(text, 1, 1)>> \o Str(SubSeq(text, 2, Len(text)))

Ch(s, i) == s[i]

Digits == {"0", "1", "2", "3", "4", "5", "6", "7", "8", "9"}

\* String.prototype.toLowerCase on one character
LowerCh(c) ==
    CASE c = "A" -> "a" []
         c = "B" -> "b" []
         c = "C" -> "c" []
         c = "D" -> "d" []
         c = "E" -> "e" []
         c = "F" -> "f" []
         c = "G" -> "g" []
         c = "H" -> "h" []
         c = "I" -> "i" []
         c = "J" -> "j" []
         c = "K" -> "k" []
         c = "L" -> "l" []
         c = "M" -> "m" []
         c = "N" -> "n" []
         c = "O" -> "o" []
         c = "P" -> "p" []
         c = "Q" -> "q" []
         c = "R" -> "r" []
         c = "S" -> "s" []
         c = "T" -> "t" []
         c = "U" -> "u" []
         c = "V" -> "v" []
         c = "W" -> "w" []
         c = "X" -> "x" []
         c = "Y" -> "y" []
         c = "Z" -> "z" []
         OTHER -> c

RECURSIVE toLowerCase(_)
toLowerCase(s) ==
    IF Len(s) = 0 THEN s
    ELSE <<LowerCh(Ch(s, 1))>> \o toLowerCase(SubSeq(s, 2, Len(s)))

\* Line terminators, which '.' of a regular expression does not match: line
\* feed, carriage return, line separator and paragraph separator
LineTerminators == {"\n", "\r", "U+2028", "U+2029"}

\* Number.prototype.toString for the page numbers of the model
RECURSIVE toString(_)
toString(n) ==
    LET digit(k) == <<"0", "1", "2", "3", "4", "5", "6", "7", "8", "9">>[k + 1]
    IN  IF n < 10 THEN <<digit(n)>>
        ELSE toString(n \div 10) \o <<digit(n % 10)>>

(***************************************************************************)
(* path.extname, path.basename and path.resolve (POSIX)                    *)
(***************************************************************************)
\* a path without its trailing slashes
RECURSIVE StripTrailingSlashes(_)
StripTrailingSlashes(p) ==
    IF Len(p) > 0 /\ Ch(p, Len(p)) = "/"
    THEN StripTrailingSlashes(SubSeq(p, 1, Len(p) - 1))
    ELSE p

\* the last component of a path, trailing slashes set aside
LastComponent(p) ==
    LET q       == StripTrailingSlashes(p)
        slashes == {k \in 1..Len(q) : Ch(q, k) = "/"}
    IN  IF slashes = {} THEN q
        ELSE SubSeq(q, (CHOOSE k \in slashes : \A j \in slashes : j <= k) + 1, Len(q))

extname(p) ==
    LET c    == LastComponent(p)
        dots == {k \in 1..Len(c) : Ch(c, k) = "."}
        last == CHOOSE k \in dots : \A j \in dots : j <= k
    IN  IF dots = {} THEN <<>>
        ELSE IF last = 1 THEN <<>>
        ELSE IF c = <<".", ".">> THEN <<>>
        ELSE SubSeq(c, last, Len(c))

basename(p, ext) ==
    LET c == LastComponent(p)
    IN  IF /\ Len(ext) > 0
           /\ Len(c) > Len(ext)
           /\ SubSeq(c, Len(c) - Len(ext) + 1, Len(c)) = ext
        THEN SubSeq(c, 1, Len(c) - Len(ext))
        ELSE c

\* process.cwd(), which is outputDir
cwd == <<"/", "w">>

\* the texts between the slashes of a path, in order
RECURSIVE Components(_)
Components(p) ==
    LET slashes == {k \in 1..Len(p) : Ch(p, k) = "/"}
        first   == CHOOSE k \in slashes : \A j \in slashes : k <= j
    IN  IF slashes = {} THEN <<p>>
        ELSE <<SubSeq(p, 1, first - 1)>> \o Components(SubSeq(p, first + 1, Len(p)))

\* the components cs applied to the directory whose components are acc: an
\* empty component and "." stay, ".." goes up (the root is its own parent)
RECURSIVE Normalise(_, _)
Normalise(cs, acc) ==
    IF cs = <<>> THEN acc
    ELSE IF Head(cs) = <<>> \/ Head(cs) = <<".">> THEN Normalise(Tail(cs), acc)
    ELSE IF Head(cs) = <<".", ".">>
    THEN Normalise(Tail(cs), IF acc = <<>> THEN acc ELSE SubSeq(acc, 1, Len(acc) - 1))
    ELSE Normalise(Tail(cs), Append(acc, Head(cs)))

\* path.resolve(p): the absolute path p leads to, as the sequence of its
\* components below the root; a relative path starts from cwd
resolve(p) ==
    IF Len(p) > 0 /\ Ch(p, 1) = "/" THEN Normalise(Components(p), <<>>)
    ELSE Normalise(Components(cwd) \o Components(p), <<>>)

(***************************************************************************)
(* The pattern /^(page_\d+_.*?)-(\d+)(\.[^.]+)$/i of renameSuffixedFiles   *)
(***************************************************************************)
NoMatch == [matched |-> FALSE, base |-> <<>>, suffix |-> <<>>, ext |-> <<>>]

\* the literal page_ , compared as the i flag compares it
\* variant: the literal compared exactly
PrefixMatchesCaseSensitive(s) ==
    Len(s) >= 5 /\ SubSeq(s, 1, 5) = <<"p", "a", "g", "e", "_">>
PrefixMatches(s) ==
    Len(s) >= 5 /\ toLowerCase(SubSeq(s, 1, 5)) = <<"p", "a", "g", "e", "_">>

AllDigits(s, from, to) == \A k \in from..to : Ch(s, k) \in Digits

\* The ways the pattern can be laid over s.  Underscores(s): the indices u of
\* an underscore that can end page_\d+_ ; Dots(s): the indices d of a dot that
\* can start (\.[^.]+)$ ; Hyphens(s): the indices h of a hyphen that can
\* separate (page_\d+_.*?) from (\d+), the digits running up to a dot of
\* Dots(s).
Underscores(s) ==
    {u \in 7..Len(s) : Ch(s, u) = "_" /\ AllDigits(s, 6, u - 1)}

Dots(s) ==
    {d \in 1..(Len(s) - 1) :
        Ch(s, d) = "." /\ \A k \in (d + 1)..Len(s) : Ch(s, k) # "."}

Hyphens(s) ==
    LET us == Underscores(s)
        ds == Dots(s)
    IN  {h \in 1..Len(s) :
            /\ Ch(s, h) = "-"
            /\ \E u \in us :
                  /\ h > u
                  /\ \A k \in (u + 1)..(h - 1) : Ch(s, k) \notin LineTerminators
            /\ \E d \in ds : d > h + 1 /\ AllDigits(s, h + 1, d - 1)}

\* filename.match(pattern): the lazy .*? takes the leftmost hyphen that
\* lets the rest of the pattern match
Match(s) ==
    LET hs == Hyphens(s)
    IN  IF ~PrefixMatches(s) \/ hs = {} THEN NoMatch
        ELSE LET h == CHOOSE h \in hs : \A o \in hs : h <= o
                 d == CHOOSE d \in Dots(s) : d > h
             IN  [matched |-> TRUE,
                  base    |-> SubSeq(s, 1, h - 1),
                  suffix  |-> SubSeq(s, h + 1, d - 1),
                  ext     |-> SubSeq(s, d, Len(s))]

\* new_filename = `${base_name}${extension}`
NewFilename(m) == m.base \o m.ext

(***************************************************************************)
(* The directory                                                           *)
(***************************************************************************)
\* An entry of a directory is a regular file ("file"), a directory ("dir"),
\* or a symbolic link that leads out of the directory: to nothing
\* ("dangling"), to a regular file ("link") or back to itself ("loop").
FileEntries(names) == {[name |-> n, kind |-> "file"] : n \in names}

\* names of regular files renameSuffixedFiles may find in the directory
PreNames ==
    {Str(text) : text \in
        {"readme.txt", "page_report.jpeg",
         "page_3_report.jpeg", "page_3_report-1.jpeg", "page_3_report-2.jpeg",
         "page_1_a-1-2.jpeg", "page_1_a-1.jpeg",
         "PAGE_3_report-1.jpeg", "Page_3_report-1.JPEG", "page_3_report-1.JPEG",
         "page_2_x-1.jpeg"}}
    \cup {Str("page_1_a") \o <<"U+2028">> \o Str("b-1.jpeg")}

\* entries renameSuffixedFiles may find in the directory
PreEntries ==
    FileEntries(PreNames) \cup
    {[name |-> Str("page_2_x.jpeg"), kind |-> "dir"],
     [name |-> Str("page_3_report.jpeg"), kind |-> "dangling"],
     [name |-> Str("page_3_report.jpeg"), kind |-> "loop"]}

\* entries a run of the whole script may find in its output directory, which
\* is the working directory: the input file, a directory of its name or the
\* directory it is in, and a dangling link under the name of a page file
MainPreEntries ==
    FileEntries({Str("input.pdf")}) \cup
    {[name |-> Str("input.pdf"), kind |-> "dir"],
     [name |-> Str("docs"), kind |-> "dir"],
     [name |-> Str("page_1_input.pdf"), kind |-> "dangling"]}

\* command lines: process.argv.slice(2)
ArgvChoices ==
    {<<>>, <<Str("input.pdf")>>, <<Str("./docs/report-2024.PDF")>>,
     <<Str("docs/a\nb.pdf")>>, <<Str("notes.docx")>>,
     <<Str("a.pdf"), Str("b.pdf")>>}

\* what pdftocairo does for one page: "fail" (non-zero exit or spawn failure,
\* no file), "plain" (writes prefix.jpeg) or "suffixed" (writes
\* prefix-digits.jpeg)
RasterSuffixes == {<<"0", "1">>}
RasterOutcomes ==
    {[result |-> "fail", suffix |-> <<>>], [result |-> "plain", suffix |-> <<>>]}
    \cup {[result |-> "suffixed", suffix |-> digits] : digits \in RasterSuffixes}

\* a directory holding the entries S, each regular file with its own content
MkDir(S) ==
    [n \in {e.name : e \in S} |->
        LET e == CHOOSE e \in S : e.name = n
        IN  [kind |-> e.kind,
             data |-> IF e.kind = "file" THEN <<"old:">> \o n ELSE <<e.kind>>]]

\* a file of this name can be opened for writing: nothing is there, or a
\* regular file, or a symbolic link to a regular file or to nothing (the open
\* follows the link); a directory and a link to itself refuse
Writable(d, name) ==
    name \in DOMAIN d => d[name].kind \in {"file", "dangling", "link"}

\* fs.writeFile, and the file pdftocairo writes: create or overwrite.  The
\* write goes through a symbolic link: the link stays, and leads to the file
\* written.
WriteFile(d, name, data) ==
    [n \in DOMAIN d \cup {name} |->
        IF n # name THEN d[n]
        ELSE IF name \in DOMAIN d /\ d[name].kind \in {"dangling", "link"}
        THEN [kind |-> "link", data |-> data]
        ELSE [kind |-> "file", data |-> data]]

\* fs.rename: the entry moves to the new name, replacing what is there
Rename(d, old, new) ==
    [n \in (DOMAIN d \ {old}) \cup {new} |-> IF n = new THEN d[old] ELSE d[n]]

\* await fs.access(path), which follows symbolic links: "ok", or the code of
\* the error it throws
AccessResult(d, name) ==
    IF name \notin DOMAIN d THEN "ENOENT"
    ELSE IF d[name].kind = "dangling" THEN "ENOENT"
    ELSE IF d[name].kind = "loop" THEN "ELOOP"
    ELSE "ok"

\* await fs.access(new_path) succeeds
TargetExists(d, name) == AccessResult(d, name) = "ok"

\* dirents.filter(dirent => dirent.isFile()).map(dirent => dirent.name)
ListFiles(d) == {n \in DOMAIN d : d[n].kind = "file"}

\* `page_${pageNum}_${baseName}.pdf` and the prefix handed to pdftocairo
OutputPrefix(n, base) ==
    <<"p", "a", "g", "e", "_">> \o toString(n) \o <<"_">> \o base
PageFileName(n, base) == OutputPrefix(n, base) \o <<".", "p", "d", "f">>

\* the name pdftocairo gives its output
RasterFileName(n, base, outcome) ==
    IF outcome.result = "plain"
    THEN OutputPrefix(n, base) \o <<".", "j", "p", "e", "g">>
    ELSE OutputPrefix(n, base) \o <<"-">> \o outcome.suffix
             \o <<".", "j", "p", "e", "g">>

\* skipped_count = files.length - renamed_count - error_count
\* variant: the count of the loop is reported as it is
FinalSkippedLoopCount(nfiles, renamed, errors, loopSkipped) == loopSkipped
FinalSkipped(nfiles, renamed, errors, loopSkipped) == nfiles - renamed - errors

\* the condition of the splitting loop: i < pageCount
\* variant: the loop stops one page early
SplitContinueOffByOne(idx, n) == idx < n - 1
SplitContinue(idx, n) == idx < n

(***************************************************************************)
(* State                                                                   *)
(***************************************************************************)
VARIABLES
    pc,             \* position of the script
    argv,           \* process.argv.slice(2)
    inputExists,    \* the input path can be accessed
    toolExists,     \* pdftocairoPath can be accessed
    baseName,       \* baseName of splitPdfAndCreateThumbnails
    pageCount,      \* pageCount of splitPdfAndCreateThumbnails
    i,              \* loop variable of the splitting and thumbnail loops
    dir,            \* the output directory: name -> entry
    files,          \* files of renameSuffixedFiles
    todo,           \* the files of the listing the loop has not reached
    renamed_count,
    skipped_count,
    error_count,
    report,         \* the three numbers the summary prints, <<>> before it
    log,            \* the log line of each file the loop has processed
    \* history
    dirInit,        \* the directory when the process started
    dir0,           \* the directory when the current pass started
    docLoaded,      \* PDFDocument.load has returned
    written,        \* page numbers whose page file was written, in order
    rastLog,        \* page numbers pdftocairo was invoked for, in order
    rastFailed,     \* page numbers whose invocation failed
    renameCalls,    \* calls of renameSuffixedFiles
    pass,           \* number of the current pass of the rename harness
    faulted,        \* files of this pass whose probe or rename failed
    targetWas       \* what was at the target path of each file when the
                    \* loop reached it: the kind of the entry, "nothing",
                    \* or "-" for a file that has no target

vars == <<pc, argv, inputExists, toolExists, baseName, pageCount, i, dir, files,
          todo, renamed_count, skipped_count, error_count, report, log, dirInit,
          dir0, docLoaded, written, rastLog, rastFailed, renameCalls, pass,
          faulted, targetWas>>

mainVars == <<argv, inputExists, toolExists, baseName, pageCount, i, dirInit,
              docLoaded, written, rastLog, rastFailed>>
renameVars == <<files, todo, renamed_count, skipped_count, error_count, report,
                log, dir0, renameCalls, faulted, targetWas>>

\* sets of at most MaxPre entries of S with different names
BoundedSubsets(S) ==
    {T \in SUBSET S :
        /\ Cardinality(T) <= MaxPre
        /\ \A e1 \in T : \A e2 \in T : e1.name = e2.name => e1 = e2}

\* What the directory says of the path p: "outside" when p leads out of the
\* working directory, "above" when it is that directory or one above it,
\* otherwise the entry of the working directory that p goes through
\* (entry), whether p stops at it (last), and what fs.access answers there.
InputPlace(p, d) ==
    LET r == resolve(p)
        w == resolve(cwd)
    IN  IF Len(r) <= Len(w)
        THEN [where |-> IF r = SubSeq(w, 1, Len(r)) THEN "above" ELSE "outside"]
        ELSE IF SubSeq(r, 1, Len(w)) # w THEN [where |-> "outside"]
        ELSE [where  |-> "inside",
              last   |-> Len(r) = Len(w) + 1,
              kind   |-> IF r[Len(w) + 1] \in DOMAIN d
                         THEN d[r[Len(w) + 1]].kind ELSE "none"]

\* path.resolve(pdfPath) resolves the argument against the working directory,
\* which is outputDir, and fs.access(absolutePdfPath) succeeds on a regular
\* file and on a directory alike: what inputExists can be, given the directory
InputConsistent(args, d, exists) ==
    Len(args) >= 1 =>
        LET place == InputPlace(args[1], d)
        IN  IF place.where = "outside" THEN TRUE
            ELSE IF place.where = "above" THEN exists
            ELSE IF place.last
            THEN exists <=> (place.kind \in {"file", "dir", "link"})
            ELSE exists => (place.kind = "dir")

\* fs.readFile(absolutePdfPath) fails on a directory (EISDIR)
InputIsDirectory(args, d) ==
    LET place == InputPlace(args[1], d)
    IN  \/ place.where = "above"
        \/ (place.where = "inside" /\ place.last /\ place.kind = "dir")

InitCommon ==
    /\ baseName = <<>> /\ pageCount = 0 /\ i = 0
    /\ files = {} /\ todo = {}
    /\ renamed_count = 0 /\ skipped_count = 0 /\ error_count = 0
    /\ report = <<>> /\ log = <<>>
    /\ dirInit = dir /\ dir0 = dir
    /\ docLoaded = FALSE /\ written = <<>> /\ rastLog = <<>> /\ rastFailed = {}
    /\ renameCalls = 0 /\ pass = 1 /\ faulted = {} /\ targetWas = <<>>

\* the script is started in some directory with some command line
Init ==
    /\ pc = "args"
    /\ argv \in ArgvChoices
    /\ inputExists \in BOOLEAN
    /\ toolExists \in BOOLEAN
    /\ dir \in {MkDir(S) : S \in BoundedSubsets(MainPreEntries)}
    /\ InputConsistent(argv, dir, inputExists)
    /\ InitCommon

\* renameSuffixedFiles is called (line 145) on a directory in any condition
InitRename ==
    /\ pc = "renameStart"
    /\ argv = <<>> /\ inputExists = TRUE /\ toolExists = TRUE
    /\ dir \in {MkDir(S) : S \in BoundedSubsets(PreEntries)}
    /\ InitCommon

(***************************************************************************)
(* Script execution and splitPdfAndCreateThumbnails                        *)
(***************************************************************************)
\* lines 160-165: argument count and extension
CheckArgs ==
    /\ pc = "args"
    /\ pc' = IF Len(argv) # 1 THEN "exit1"
             ELSE IF toLowerCase(extname(argv[1])) # <<".", "p", "d", "f">>
                  THEN "exit1"
             ELSE "checkInput"
    /\ UNCHANGED <<dir, pass>> /\ UNCHANGED mainVars /\ UNCHANGED renameVars

\* line 100: await fs.access(absolutePdfPath)
CheckInput ==
    /\ pc = "checkInput"
    /\ pc' = IF inputExists THEN "checkTool" ELSE "exit1"
    /\ UNCHANGED <<dir, pass>> /\ UNCHANGED mainVars /\ UNCHANGED renameVars

\* line 101: await fs.access(pdftocairoPath)
\* variant: the result of the check is ignored
CheckToolIgnored ==
    /\ pc = "checkTool"
    /\ pc' = "load"
    /\ UNCHANGED <<dir, pass>> /\ UNCHANGED mainVars /\ UNCHANGED renameVars
CheckTool ==
    /\ pc = "checkTool"
    /\ pc' = IF toolExists THEN "load" ELSE "exit1"
    /\ UNCHANGED <<dir, pass>> /\ UNCHANGED mainVars /\ UNCHANGED renameVars

\* lines 103-108: read and load the document; a failure reaches the outer
\* catch and exits with 1
LoadDoc ==
    /\ pc = "load"
    /\ \E ok \in BOOLEAN :
         /\ ok => ~InputIsDirectory(argv, dir)
         /\ IF ok
            THEN \E n \in 0..MaxPages :
                   /\ baseName' = basename(argv[1], extname(argv[1]))
                   /\ pageCount' = n
                   /\ docLoaded' = TRUE
                   /\ i' = 0
                   /\ pc' = "split"
            ELSE /\ pc' = "exit1"
                 /\ UNCHANGED <<baseName, pageCount, docLoaded, i>>
    /\ UNCHANGED <<argv, inputExists, toolExists, dir, dirInit, written, rastLog,
                   rastFailed, pass>>
    /\ UNCHANGED renameVars

\* lines 111-120: one iteration of the splitting loop; a failure reaches the
\* outer catch and exits with 1.  fs.writeFile may fail before it opens the
\* file ("unopened": nothing changes) or after ("truncated": the page file is
\* there, created or emptied, without its content).  It cannot open a name
\* that is not Writable.
SplitPage ==
    /\ pc = "split"
    /\ SplitContinue(i, pageCount)
    /\ \E outcome \in {"ok", "unopened", "truncated"} :
         /\ outcome # "unopened" => Writable(dir, PageFileName(i + 1, baseName))
         /\ IF outcome = "ok"
            THEN /\ dir' = WriteFile(dir, PageFileName(i + 1, baseName),
                                     <<"pdf:">> \o toString(i + 1))
                 /\ written' = Append(written, i + 1)
                 /\ i' = i + 1
                 /\ pc' = pc
            ELSE /\ pc' = "exit1"
                 /\ dir' = IF outcome = "truncated"
                           THEN WriteFile(dir, PageFileName(i + 1, baseName), <<>>)
                           ELSE dir
                 /\ UNCHANGED <<written, i>>
    /\ UNCHANGED <<argv, inputExists, toolExists, baseName, pageCount, dirInit,
                   docLoaded, rastLog, rastFailed, pass>>
    /\ UNCHANGED renameVars

\* lines 120-125: the splitting loop ends, the thumbnail loop begins
StartThumbs ==
    /\ pc = "split"
    /\ ~SplitContinue(i, pageCount)
    /\ pc' = "thumb"
    /\ i' = 1
    /\ UNCHANGED <<argv, inputExists, toolExists, baseName, pageCount, dir,
                   dirInit, docLoaded, written, rastLog, rastFailed, pass>>
    /\ UNCHANGED renameVars

\* lines 125-141: one iteration of the thumbnail loop; the failure of execFile
\* is caught inside the iteration.  pdftocairo fails when it cannot open its
\* output.
\* variant: the failure of execFile reaches the outer catch
ThumbPageAbortOnFailure ==
    /\ pc = "thumb"
    /\ i <= pageCount
    /\ \E outcome \in RasterOutcomes :
         /\ outcome.result # "fail" =>
                Writable(dir, RasterFileName(i, baseName, outcome))
         /\ rastLog' = Append(rastLog, i)
         /\ IF outcome.result = "fail"
            THEN /\ rastFailed' = rastFailed \cup {i}
                 /\ pc' = "exit1"
                 /\ UNCHANGED <<dir, i>>
            ELSE /\ dir' = WriteFile(dir, RasterFileName(i, baseName, outcome),
                                     <<"jpeg:">> \o toString(i))
                 /\ i' = i + 1
                 /\ pc' = pc
                 /\ UNCHANGED rastFailed
    /\ UNCHANGED <<argv, inputExists, toolExists, baseName, pageCount, dirInit,
                   docLoaded, written, pass>>
    /\ UNCHANGED renameVars
ThumbPage ==
    /\ pc = "thumb"
    /\ i <= pageCount
    /\ \E outcome \in RasterOutcomes :
         /\ outcome.result # "fail" =>
                Writable(dir, RasterFileName(i, baseName, outcome))
         /\ rastLog' = Append(rastLog, i)
         /\ IF outcome.result = "fail"
            THEN /\ rastFailed' = rastFailed \cup {i}
                 /\ UNCHANGED dir
            ELSE /\ dir' = WriteFile(dir, RasterFileName(i, baseName, outcome),
                                     <<"jpeg:">> \o toString(i))
                 /\ UNCHANGED rastFailed
    /\ i' = i + 1
    /\ pc' = pc
    /\ UNCHANGED <<argv, inputExists, toolExists, baseName, pageCount, dirInit,
                   docLoaded, written, pass>>
    /\ UNCHANGED renameVars

\* lines 141-145: the thumbnail loop ends and renameSuffixedFiles is called
CallRename ==
    /\ pc = "thumb"
    /\ i > pageCount
    /\ pc' = "renameStart"
    /\ UNCHANGED <<dir, pass>> /\ UNCHANGED mainVars /\ UNCHANGED renameVars

\* line 148: renameSuffixedFiles has returned, the script finishes
Finish ==
    /\ pc = "renameReturned"
    /\ pc' = "done"
    /\ UNCHANGED <<dir, pass>> /\ UNCHANGED mainVars /\ UNCHANGED renameVars

(***************************************************************************)
(* renameSuffixedFiles                                                     *)
(***************************************************************************)
\* lines 14-31: the counters are initialised and the directory is listed
RenameReaddir ==
    /\ pc = "renameStart"
    /\ pc' = "renameLoop"
    /\ files' = ListFiles(dir)
    /\ todo' = ListFiles(dir)
    /\ renamed_count' = 0 /\ skipped_count' = 0 /\ error_count' = 0
    /\ report' = <<>> /\ log' = <<>>
    /\ dir0' = dir
    /\ renameCalls' = renameCalls + 1
    /\ faulted' = {} /\ targetWas' = <<>>
    /\ UNCHANGED <<dir, pass>> /\ UNCHANGED mainVars

\* lines 26-28, 78-81: fs.readdir fails; files stays empty
RenameReaddirFails ==
    /\ pc = "renameStart"
    /\ pc' = "renameLoop"
    /\ files' = {}
    /\ todo' = {}
    /\ renamed_count' = 0 /\ skipped_count' = 0 /\ error_count' = 0
    /\ report' = <<>> /\ log' = <<>>
    /\ dir0' = dir
    /\ renameCalls' = renameCalls + 1
    /\ faulted' = {} /\ targetWas' = <<>>
    /\ UNCHANGED <<dir, pass>> /\ UNCHANGED mainVars

\* lines 33-77: the iteration of the loop for filename.  fault is what the
\* file system does to this candidate beyond what the directory decides:
\* "none", "access" (fs.access fails with an error other than ENOENT) or
\* "rename" (fs.rename fails).  A target that is a symbolic link to itself makes
\* fs.access fail by itself; one that is a dangling link makes it report
\* ENOENT, and fs.rename then replaces the link.  A failure is taken only
\* where the call that fails is made: fs.access for a file that matches,
\* fs.rename after fs.access has reported ENOENT.  The order in
\* which readdir lists the files is not specified: any file not yet reached
\* may be the next one.
\* variant: a failure ends the loop
RenameIterAbortOnError(filename, fault) ==
    LET m            == Match(filename)
        new_filename == NewFilename(m)
        there        == IF ~m.matched \/ filename = new_filename THEN "-"
                        ELSE IF new_filename \in DOMAIN dir
                        THEN dir[new_filename].kind
                        ELSE "nothing"
    IN  /\ pc = "renameLoop"
        /\ filename \in todo
        /\ targetWas' = (filename :> there) @@ targetWas
        /\ IF ~m.matched \/ filename = new_filename
           THEN /\ fault = "none"
                /\ log' = (filename :> "none") @@ log
                /\ todo' = todo \ {filename}
                /\ UNCHANGED <<dir, renamed_count, skipped_count, error_count, faulted>>
           ELSE IF \/ fault = "access"
                   \/ AccessResult(dir, new_filename) \notin {"ok", "ENOENT"}
                   \/ (fault = "rename" /\ ~TargetExists(dir, new_filename))
           THEN /\ (fault = "rename" => AccessResult(dir, new_filename) = "ENOENT")
                /\ error_count' = error_count + 1
                /\ faulted' = faulted \cup {filename}
                /\ log' = (filename :> "ERROR") @@ log
                /\ todo' = {}
                /\ UNCHANGED <<dir, renamed_count, skipped_count>>
           ELSE IF TargetExists(dir, new_filename)
           THEN /\ fault = "none"
                /\ skipped_count' = skipped_count + 1
                /\ log' = (filename :> "SKIPPED") @@ log
                /\ todo' = todo \ {filename}
                /\ UNCHANGED <<dir, renamed_count, error_count, faulted>>
           ELSE /\ dir' = Rename(dir, filename, new_filename)
                /\ renamed_count' = renamed_count + 1
                /\ log' = (filename :> "Renamed") @@ log
                /\ todo' = todo \ {filename}
                /\ UNCHANGED <<skipped_count, error_count, faulted>>
        /\ UNCHANGED <<pc, files, report, dir0, renameCalls, pass>>
        /\ UNCHANGED mainVars
RenameIter(filename, fault) ==
    LET m            == Match(filename)
        new_filename == NewFilename(m)
        there        == IF ~m.matched \/ filename = new_filename THEN "-"
                        ELSE IF new_filename \in DOMAIN dir
                        THEN dir[new_filename].kind
                        ELSE "nothing"
    IN  /\ pc = "renameLoop"
        /\ filename \in todo
        /\ targetWas' = (filename :> there) @@ targetWas
        /\ todo' = todo \ {filename}
        /\ IF ~m.matched \/ filename = new_filename
           THEN /\ fault = "none"
                /\ log' = (filename :> "none") @@ log
                /\ UNCHANGED <<dir, renamed_count, skipped_count, error_count, faulted>>
           ELSE IF \/ fault = "access"
                   \/ AccessResult(dir, new_filename) \notin {"ok", "ENOENT"}
           THEN /\ fault # "rename"
                /\ error_count' = error_count + 1
                /\ faulted' = faulted \cup {filename}
                /\ log' = (filename :> "ERROR") @@ log
                /\ UNCHANGED <<dir, renamed_count, skipped_count>>
           ELSE IF TargetExists(dir, new_filename)
           THEN /\ fault = "none"
                /\ skipped_count' = skipped_count + 1
                /\ log' = (filename :> "SKIPPED") @@ log
                /\ UNCHANGED <<dir, renamed_count, error_count, faulted>>
           ELSE IF fault = "rename"
           THEN /\ error_count' = error_count + 1
                /\ faulted' = faulted \cup {filename}
                /\ log' = (filename :> "ERROR") @@ log
                /\ UNCHANGED <<dir, renamed_count, skipped_count>>
           ELSE /\ dir' = Rename(dir, filename, new_filename)
                /\ renamed_count' = renamed_count + 1
                /\ log' = (filename :> "Renamed") @@ log
                /\ UNCHANGED <<skipped_count, error_count, faulted>>
        /\ UNCHANGED <<pc, files, report, dir0, renameCalls, pass>>
        /\ UNCHANGED mainVars

\* an iteration the file system does not disturb
RenameFile == \E filename \in todo : RenameIter(filename, "none")

\* an iteration in which the probe of the target fails
RenameFileAccessError == \E filename \in todo : RenameIter(filename, "access")

\* an iteration in which the rename fails
RenameFileRenameError == \E filename \in todo : RenameIter(filename, "rename")

\* lines 83-88: the summary; the function returns
RenameSummary ==
    /\ pc = "renameLoop"
    /\ todo = {}
    /\ pc' = "renameReturned"
    /\ skipped_count' = FinalSkipped(Cardinality(files), renamed_count,
                                     error_count, skipped_count)
    /\ report' = [renamed |-> renamed_count,
                  skipped |-> skipped_count',
                  errors  |-> error_count]
    /\ UNCHANGED <<files, todo, renamed_count, error_count, log, dir0,
                   renameCalls, faulted, targetWas, dir, pass>>
    /\ UNCHANGED mainVars

\* the harness calls renameSuffixedFiles again on the directory as it is
NextPass ==
    /\ pc = "renameReturned"
    /\ pass < MaxPasses
    /\ pass' = pass + 1
    /\ pc' = "renameStart"
    /\ UNCHANGED dir /\ UNCHANGED mainVars /\ UNCHANGED renameVars

(***************************************************************************)
(* Specifications                                                          *)
(***************************************************************************)
\* a run of the script
Next ==
    \/ CheckArgs
    \/ CheckInput
    \/ CheckTool
    \/ LoadDoc
    \/ SplitPage
    \/ StartThumbs
    \/ ThumbPage
    \/ CallRename
    \/ RenameReaddir
    \/ RenameReaddirFails
    \/ RenameFile
    \/ RenameFileAccessError
    \/ RenameFileRenameError
    \/ RenameSummary
    \/ Finish

Spec == Init /\ [][Next]_vars

\* consecutive calls of renameSuffixedFiles on an arbitrary directory
NextRename ==
    \/ RenameReaddir
    \/ RenameFile
    \/ RenameSummary
    \/ NextPass

SpecRename == InitRename /\ [][NextRename]_vars

\* the script from the call of renameSuffixedFiles to its end, on an arbitrary
\* directory and with a file system that may fail
NextRenameF ==
    \/ RenameReaddir
    \/ RenameReaddirFails
    \/ RenameFile
    \/ RenameFileAccessError
    \/ RenameFileRenameError
    \/ RenameSummary
    \/ Finish

SpecRenameF == InitRename /\ [][NextRenameF]_vars

(***************************************************************************)
(* Vocabulary of the properties                                            *)
(***************************************************************************)
Terminated == pc \in {"done", "exit1"}
ExitCode == IF pc = "done" THEN 0 ELSE 1

\* <<1, 2, ..., n>>
UpTo(n) == [k \in 1..n |-> k]

NoHyphen(s) == \A k \in 1..Len(s) : Ch(s, k) # "-"

StartsWithPage(s) == Len(s) >= 5 /\ SubSeq(s, 1, 5) = Str("page_")

ThumbName(n) == OutputPrefix(n, baseName) \o Str(".jpeg")

\* f is page_{n}_{baseName}-{digits}.jpeg
IsSuffixedThumb(f, n) ==
    LET p == OutputPrefix(n, baseName) \o Str("-")
    IN  /\ Len(f) > Len(p) + 5
        /\ SubSeq(f, 1, Len(p)) = p
        /\ SubSeq(f, Len(f) - 4, Len(f)) = Str(".jpeg")
        /\ \A k \in (Len(p) + 1)..(Len(f) - 5) : Ch(f, k) \in Digits

\* the multiset of the contents of a directory
ContentsBag(d) ==
    [c \in {d[n] : n \in DOMAIN d} |-> Cardinality({n \in DOMAIN d : d[n] = c})]

\* a fatal precondition of the command line or the environment
Fatal ==
    \/ Len(argv) # 1
    \/ (Len(argv) = 1 /\ toLowerCase(extname(argv[1])) # Str(".pdf"))
    \/ ~inputExists
    \/ ~toolExists

(***************************************************************************)
(* Properties of a run of the script (Spec)                                *)
(***************************************************************************)
\* C1: when a run completes with exit code 0, the directory holds
\* page_{n}_{baseName}.pdf for every page n of the source, whatever the base
\* name: the reconciler never renames or removes a page file.
C1_PageFilesSurvive ==
    pc = "done" =>
        \A n \in 1..pageCount : PageFileName(n, baseName) \in DOMAIN dir

\* the run has ended after the rasterizer succeeded for every page, for a base
\* name without a hyphen, in a directory that held no page_* entry
C2_Case ==
    /\ Terminated
    /\ docLoaded
    /\ NoHyphen(baseName)
    /\ \A f \in DOMAIN dirInit : ~StartsWithPage(f)
    /\ rastLog = UpTo(pageCount)
    /\ rastFailed = {}

\* the directory holds the thumbnail of every page under
\* page_{n}_{baseName}.jpeg and no page_{n}_{baseName}-{digits}.jpeg
C2_Normalised ==
    \A n \in 1..pageCount :
        /\ ThumbName(n) \in DOMAIN dir
        /\ dir[ThumbName(n)].data = <<"jpeg:">> \o toString(n)
        /\ \A f \in DOMAIN dir : ~IsSuffixedThumb(f, n)

\* C2: for a base name without a hyphen and a directory that held no page_*
\* entry, if every invocation of the rasterizer succeeded and wrote
\* page_{n}_{baseName}.jpeg or page_{n}_{baseName}-{digits}.jpeg, then at the
\* end of the run the directory holds the thumbnail of every page under
\* page_{n}_{baseName}.jpeg and no page_{n}_{baseName}-{digits}.jpeg.  It is
\* stated for the runs in which the file system did not fail the reconciler
\* (the directory was listed, no probe and no rename failed), where nothing
\* but the pattern decides what is renamed.
C2_ThumbnailsNormalised ==
    (C2_Case /\ files = ListFiles(dir0) /\ error_count = 0) => C2_Normalised

\* C3: whatever pages fail to rasterize, the rasterizer is invoked once for
\* each page 1..N in ascending order, the reconciler is then run, and the
\* process does not exit with a non-zero code.
C3_RasterFailureNotFatal ==
    /\ pc = "thumb" => rastLog = UpTo(i - 1)
    /\ pc \in {"renameStart", "renameLoop", "renameReturned", "done"}
          => rastLog = UpTo(pageCount)
    /\ rastFailed \subseteq {rastLog[k] : k \in 1..Len(rastLog)}
    /\ rastLog # <<>> => pc # "exit1"
    /\ pc = "done" => (renameCalls = 1 /\ ExitCode = 0)

\* a finished run whose first page failed to rasterize and had later pages
C3_Witness ==
    /\ pc = "done"
    /\ pageCount >= 2
    /\ 1 \in rastFailed
    /\ renameCalls = 1

\* C5: with a wrong argument count, a wrong extension, a missing input file or
\* a missing rasterizer the script only ever exits with a non-zero code, and
\* no document is loaded, no file is created, the rasterizer is not invoked
\* and the reconciler is not run.
C5_FatalNoSideEffects ==
    Fatal =>
        /\ pc \in {"args", "checkInput", "checkTool", "exit1"}
        /\ ~docLoaded
        /\ dir = dirInit
        /\ written = <<>>
        /\ rastLog = <<>>
        /\ renameCalls = 0

\* the script has exited because only the rasterizer is missing
C5_Witness ==
    /\ pc = "exit1"
    /\ Len(argv) = 1
    /\ toLowerCase(extname(argv[1])) = Str(".pdf")
    /\ inputExists
    /\ ~toolExists
    /\ ExitCode = 1

\* C8: the rasterizer is not invoked before all N page files are written, the
\* reconciler does not start before the rasterizer has returned for page N,
\* and the reconciler is run exactly once in a run that gets past splitting.
C8_StageOrder ==
    /\ rastLog # <<>> => written = UpTo(pageCount)
    /\ pc = "thumb" => written = UpTo(pageCount)
    /\ renameCalls > 0 => (rastLog = UpTo(pageCount) /\ written = UpTo(pageCount))
    /\ dir0 # dirInit => rastLog = UpTo(pageCount)
    /\ renameCalls <= 1
    /\ pc = "done" => renameCalls = 1
    /\ pc = "exit1" => (renameCalls = 0 /\ rastLog = <<>>)

\* a finished run of two or more pages in which the reconciler renamed a file
C8_Witness ==
    /\ pc = "done"
    /\ pageCount >= 2
    /\ renamed_count >= 1
    /\ rastFailed # {}

(***************************************************************************)
(* Properties of renameSuffixedFiles (SpecRename, SpecRenameF)             *)
(***************************************************************************)
\* C4, as claimed: with exactly page_3_report.jpeg and page_3_report-1.jpeg
\* in the directory, both files are unchanged after the pass and the summary
\* reports 1 skipped, 0 renamed, 0 errored.
C4_ReportsOneSkipped ==
    ( /\ pc = "renameReturned"
      /\ DOMAIN dir0 = {Str("page_3_report.jpeg"), Str("page_3_report-1.jpeg")}
      /\ \A f \in DOMAIN dir0 : dir0[f].kind = "file" )
    => /\ dir = dir0
       /\ report = [renamed |-> 0, skipped |-> 1, errors |-> 0]

\* C4, amended: with page_3_report.jpeg and page_3_report-1.jpeg in the
\* directory, both files are unchanged after the pass and the candidate is
\* logged as SKIPPED; the skipped number of the summary is the number of files
\* less the renamed and the errored ones, so that with exactly these two files
\* the summary reports 2 skipped, 0 renamed, 0 errored.
C4_ConflictSkippedAndCounted ==
    ( /\ pc = "renameReturned"
      /\ {Str("page_3_report.jpeg"), Str("page_3_report-1.jpeg")} \subseteq DOMAIN dir0
      /\ dir0[Str("page_3_report.jpeg")].kind = "file"
      /\ dir0[Str("page_3_report-1.jpeg")].kind = "file" )
    => /\ {Str("page_3_report.jpeg"), Str("page_3_report-1.jpeg")} \subseteq DOMAIN dir
       /\ dir[Str("page_3_report.jpeg")] = dir0[Str("page_3_report.jpeg")]
       /\ dir[Str("page_3_report-1.jpeg")] = dir0[Str("page_3_report-1.jpeg")]
       /\ log[Str("page_3_report-1.jpeg")] = "SKIPPED"
       /\ log[Str("page_3_report.jpeg")] = "none"
       /\ report.skipped = Cardinality(files) - report.renamed - report.errors
       /\ DOMAIN dir0 = {Str("page_3_report.jpeg"), Str("page_3_report-1.jpeg")}
             => report = [renamed |-> 0, skipped |-> 2, errors |-> 0]

\* a first pass over exactly the two files has returned
C4_Witness ==
    /\ pc = "renameReturned"
    /\ pass = 1
    /\ DOMAIN dir0 = {Str("page_3_report.jpeg"), Str("page_3_report-1.jpeg")}
    /\ DOMAIN log = {Str("page_3_report.jpeg"), Str("page_3_report-1.jpeg")}
    /\ log[Str("page_3_report-1.jpeg")] = "SKIPPED"

\* C6: a pass never overwrites or destroys an entry: a rename is performed
\* only when nothing occupies the target path, so that the number of entries
\* and the multiset of contents of the directory are those the pass started
\* with, whatever the directory, the order of the listing and the failures of
\* the file system.
C6_NothingDestroyed ==
    /\ Cardinality(DOMAIN dir) = Cardinality(DOMAIN dir0)
    /\ ContentsBag(dir) = ContentsBag(dir0)

\* C7: a second pass right after a first one renames nothing and leaves the
\* set of file names as the first pass left it.
C7_SecondPassRenamesNothing ==
    (pass >= 2 /\ pc \in {"renameLoop", "renameReturned"})
    => (renamed_count = 0 /\ DOMAIN dir = DOMAIN dir0)

\* C9, as claimed: PAGE_3_report-1.jpeg and Page_3_report-1.JPEG do not match
\* and are left untouched.
C9_UppercasePrefixUntouched ==
    \A f \in {Str("PAGE_3_report-1.jpeg"), Str("Page_3_report-1.JPEG")} :
        f \in DOMAIN dir0 =>
            /\ f \in DOMAIN dir
            /\ dir[f] = dir0[f]
            /\ f \in DOMAIN log => log[f] = "none"

\* C9, amended: the literal page_ is matched without regard to case as well:
\* PAGE_3_report-1.jpeg is renamed to PAGE_3_report.jpeg, Page_3_report-1.JPEG
\* to Page_3_report.JPEG and page_3_report-1.JPEG to page_3_report.JPEG, while
\* readme.txt and page_report.jpeg do not match and are left untouched.
C9_PrefixMatchedInAnyCase ==
    /\ \A p \in { <<Str("PAGE_3_report-1.jpeg"), Str("PAGE_3_report.jpeg")>>,
                  <<Str("Page_3_report-1.JPEG"), Str("Page_3_report.JPEG")>>,
                  <<Str("page_3_report-1.JPEG"), Str("page_3_report.JPEG")>> } :
          p[1] \in DOMAIN log =>
              /\ log[p[1]] = "Renamed"
              /\ p[1] \notin DOMAIN dir
              /\ p[2] \in DOMAIN dir
              /\ dir[p[2]] = dir0[p[1]]
    /\ \A f \in {Str("readme.txt"), Str("page_report.jpeg")} :
          f \in DOMAIN log =>
              /\ log[f] = "none"
              /\ f \in DOMAIN dir
              /\ dir[f] = dir0[f]

\* a pass has processed an upper-case prefix, an upper-case extension and a
\* file that does not match
C9_Witness ==
    /\ pc = "renameReturned"
    /\ {Str("PAGE_3_report-1.jpeg"), Str("page_3_report-1.JPEG"), Str("readme.txt")} \subseteq DOMAIN log

\* C10: each candidate whose probe or rename fails adds one to the error
\* count and stays in place; every other listed file is still processed, as
\* what is at its target at the time it is reached decides (skipped when
\* fs.access finds something there, renamed when it does not), and
\* the function returns with the errors counted in its summary and the script
\* ends with exit code 0.
C10_ErrorIsolation ==
    /\ error_count = Cardinality(faulted)
    /\ \A f \in faulted :
          /\ f \in DOMAIN dir
          /\ dir[f] = dir0[f]
    /\ \A f \in DOMAIN log : (log[f] = "ERROR") <=> (f \in faulted)
    /\ \A f \in DOMAIN log :
          /\ log[f] = "Renamed" =>
                (NewFilename(Match(f)) \in DOMAIN dir /\ dir[NewFilename(Match(f))] = dir0[f])
          /\ log[f] = "none" => ~Match(f).matched
          /\ log[f] = "SKIPPED" => (f \in DOMAIN dir /\ dir[f] = dir0[f])
    /\ DOMAIN targetWas = DOMAIN log
    /\ \A f \in DOMAIN log :
          /\ (log[f] = "none") <=> (targetWas[f] = "-")
          /\ log[f] = "SKIPPED" => targetWas[f] \in {"file", "dir", "link"}
          /\ log[f] = "Renamed" => targetWas[f] \in {"nothing", "dangling"}
          /\ f \notin faulted =>
                /\ targetWas[f] \in {"file", "dir", "link"} => log[f] = "SKIPPED"
                /\ targetWas[f] \in {"nothing", "dangling"} => log[f] = "Renamed"
          /\ targetWas[f] = "loop" => log[f] = "ERROR"
    /\ DOMAIN log = files \ todo
    /\ pc \in {"renameReturned", "done"} =>
          /\ DOMAIN log = files
          /\ report.errors = Cardinality(faulted)
          /\ report.renamed = Cardinality({f \in files : log[f] = "Renamed"})
    /\ pc # "exit1"
    /\ Terminated => ExitCode = 0

\* a pass over three or more files has returned after a failed candidate and a
\* rename
C10_Witness ==
    /\ pc = "done"
    /\ Cardinality(files) >= 3
    /\ faulted # {}
    /\ renamed_count >= 1
====
